---- MODULE Spec2Model ----
(***************************************************************************)
(* Model of the blitzweek-b registration API: the Registration collection  *)
(* with its unique indexes, the register workflow (validation, duplicate   *)
(* pre-check, pre-save number generation, insert) and the administrative   *)
(* status update, delete and lookup handlers.                              *)
(*                                                                         *)
(* Identity strings (ldapId, rollNumber) are sequences of one-character    *)
(* strings so that trimming and case folding are computed character by     *)
(* character.  Registration numbers are strings built by concatenation.    *)
(***************************************************************************)
EXTENDS Integers, Sequences, FiniteSets, TLC

(***************************************************************************)
(* Bounds of the model.                                                    *)
(***************************************************************************)
\* register requests received in a behaviour of Spec; the clock advances by
\* one tick with each of them
MaxRequests == 2
\* register requests received in a behaviour of SpecLong
MaxLongRequests == 4
MaxRetryRequests == 4
\* clock ticks per calendar year
TicksPerYear == 6
\* clock ticks per day
TicksPerDay == 2
\* register requests received in a behaviour of SpecOps
MaxOpsRequests == 2
\* register requests received in a behaviour of SpecStats
MaxStatsRequests == 2
\* register requests received in a behaviour of SpecAll
MaxAllRequests == 1

\* the register requests that may be in flight at the same time
Procs == {"r1", "r2"}

\* calendar year at clock value 0
BaseYear == 2025

(***************************************************************************)
(* Characters and strings.                                                 *)
(***************************************************************************)
Lowers == <<"a","b","c","d","e","f","g","h","i","j","k","l","m",
            "n","o","p","q","r","s","t","u","v","w","x","y","z">>
Uppers == <<"A","B","C","D","E","F","G","H","I","J","K","L","M",
            "N","O","P","Q","R","S","T","U","V","W","X","Y","Z">>
Digits == {"0","1","2","3","4","5","6","7","8","9"}

LowerSet == {Lowers[i] : i \in 1..26}
UpperSet == {Uppers[i] : i \in 1..26}

LowerChar(c) ==
  IF c \in UpperSet THEN Lowers[CHOOSE i \in 1..26 : Uppers[i] = c] ELSE c

UpperChar(c) ==
  IF c \in LowerSet THEN Uppers[CHOOSE i \in 1..26 : Lowers[i] = c] ELSE c

\* String.prototype.toLowerCase / toUpperCase
toLowerCase(s) == [i \in 1..Len(s) |-> LowerChar(s[i])]
toUpperCase(s) == [i \in 1..Len(s) |-> UpperChar(s[i])]

\* String.prototype.trim (the only whitespace of the model is the blank)
RECURSIVE trimLeft(_)
trimLeft(s) == IF s # <<>> /\ Head(s) = " " THEN trimLeft(Tail(s)) ELSE s

RECURSIVE trimRight(_)
trimRight(s) ==
  IF s # <<>> /\ s[Len(s)] = " " THEN trimRight(SubSeq(s, 1, Len(s) - 1)) ELSE s

trim(s) == trimRight(trimLeft(s))

EndsWith(s, suffix) ==
  /\ Len(s) >= Len(suffix)
  /\ SubSeq(s, Len(s) - Len(suffix) + 1, Len(s)) = suffix

includes(s, c) == \E i \in 1..Len(s) : s[i] = c

\* the literal "@iitb.ac.in" of both email patterns
AtIitb == <<"@","i","i","t","b",".","a","c",".","i","n">>

\* characters of the class [a-zA-Z0-9._%+-]
LocalChars == LowerSet \cup UpperSet \cup Digits \cup {".","_","%","+","-"}

(***************************************************************************)
(* Registration number: `BW${year}${String(count + 1).padStart(4, '0')}`   *)
(***************************************************************************)
DigitStr(d) ==
  CASE d = 0 -> "0" [] d = 1 -> "1" [] d = 2 -> "2" [] d = 3 -> "3"
    [] d = 4 -> "4" [] d = 5 -> "5" [] d = 6 -> "6" [] d = 7 -> "7"
    [] d = 8 -> "8" [] d = 9 -> "9"

\* String(n) for a natural number n
RECURSIVE NumToString(_)
NumToString(n) ==
  IF n < 10 THEN DigitStr(n) ELSE NumToString(n \div 10) \o DigitStr(n % 10)

\* String.prototype.padStart(width, '0')
RECURSIVE padStart(_, _)
padStart(s, width) == IF Len(s) >= width THEN s ELSE padStart("0" \o s, width)

\* new Date().getFullYear() at clock value t
getFullYear(t) == BaseYear + (t \div TicksPerYear)

\* a number without the zero padding
GenerateRegistrationNumber_Unpadded(count, t) ==
  "BW" \o NumToString(getFullYear(t)) \o NumToString(count + 1)

GenerateRegistrationNumber(count, t) ==
  "BW" \o NumToString(getFullYear(t)) \o padStart(NumToString(count + 1), 4)

(***************************************************************************)
(* Request bodies.  interestedEvents may be absent, a single string or an  *)
(* array of strings, as JSON allows.                                       *)
(***************************************************************************)
Str_a      == <<"a">> \o AtIitb
Str_A      == <<" ","A">> \o toUpperCase(AtIitb)
Str_b      == <<"b">> \o AtIitb
Str_c      == <<"c">> \o AtIitb
Str_noUser == AtIitb

Roll_1  == <<"2","1","b","1","2","3","4">>
Roll_1U == <<"2","1","B","1","2","3","4"," ">>
Roll_2  == <<"2","2","b","5","6","7","8">>
Roll_3  == <<"2","3","b","0","0","0","3">>
Roll_xyz == <<"x","y","z">>

Name_1 == <<"A","l","i","c","e">>

MissingEvents   == [kind |-> "missing", val |-> <<>>]
ScalarEvents(e) == [kind |-> "scalar", val |-> <<e>>]
ArrayEvents(es) == [kind |-> "array", val |-> es]

TwoEvents == ArrayEvents(<<"ScaleUp Blitz", "ScaleUp Ignite">>)

Body(ldapId, rollNumber, branch, events) ==
  [name |-> Name_1, ldapId |-> ldapId, rollNumber |-> rollNumber,
   branch |-> branch, year |-> "3rd Year", interestedEvents |-> events]

\* well-formed bodies: the same email or the same roll number in another
\* letter case, one identity field shared and the other not, nothing shared
IdentityBodies ==
  {Body(Str_a, Roll_1, "Computer Science and Engineering", TwoEvents),
   Body(Str_A, Roll_2, "Computer Science and Engineering", TwoEvents),
   Body(Str_b, Roll_1U, "Computer Science and Engineering", TwoEvents),
   Body(Str_b, Roll_2, "Physics", ScalarEvents("Both"))}

\* bodies with an empty or absent event selection and with an email that
\* has no local part
SpecialBodies ==
  {Body(Str_b, Roll_2, "Physics", ArrayEvents(<<>>)),
   Body(Str_a, Roll_1, "Astrology", MissingEvents),
   Body(Str_noUser, Roll_2, "Computer Science and Engineering", TwoEvents)}

Bodies == IdentityBodies \cup SpecialBodies

\* the bodies of the longer histories of SpecLong
LongBodies ==
  {Body(Str_a, Roll_1, "Computer Science and Engineering", TwoEvents),
   Body(Str_A, Roll_2, "Computer Science and Engineering", TwoEvents),
   Body(Str_b, Roll_2, "Physics", ScalarEvents("Both"))}

\* the bodies of SpecRetry: three people who share no email and no roll number
RetryBodies ==
  {Body(Str_a, Roll_1, "Computer Science and Engineering", TwoEvents),
   Body(Str_b, Roll_2, "Physics", ScalarEvents("Both")),
   Body(Str_c, Roll_3, "Physics", ScalarEvents("Both"))}

\* the bodies of SpecOps: two event selections that share an event, a roll
\* number that is no roll number, a selection of 'Both'
OpsBodies ==
  {Body(Str_a, Roll_1, "Computer Science and Engineering", TwoEvents),
   Body(Str_b, Roll_xyz, "Physics", ArrayEvents(<<"ScaleUp Blitz">>)),
   Body(Str_b, Roll_2, "Physics", ScalarEvents("Both"))}

\* the bodies of SpecStats: a selection of two events and one of 'Both', in
\* different branches
StatsBodies ==
  {Body(Str_a, Roll_1, "Computer Science and Engineering", TwoEvents),
   Body(Str_b, Roll_2, "Physics", ScalarEvents("Both"))}

(***************************************************************************)
(* validateRegistration: the express-validator chains of POST /register.   *)
(* A standard validator applied to an array runs on each element, so it    *)
(* reports nothing for an array without elements; an absent value is       *)
(* validated as the empty string.                                          *)
(***************************************************************************)
validBranches ==
  {"Aerospace Engineering", "Chemical Engineering", "Civil Engineering",
   "Computer Science and Engineering", "Electrical Engineering",
   "Engineering Physics", "Environmental Science and Engineering",
   "Mechanical Engineering",
   "Metallurgical Engineering and Materials Science",
   "Biosciences and Bioengineering", "Chemistry", "Earth Sciences",
   "Mathematics", "Physics", "Climate Studies", "Educational Technology",
   "Energy Science and Engineering", "Systems and Control Engineering",
   "Technology and Development", "Economics", "Other"}

validYears ==
  {"1st Year", "2nd Year", "3rd Year", "4th Year", "5th Year", "MTech",
   "PhD", "Other"}

validEvents == {"ScaleUp Blitz", "ScaleUp Ignite", "Both"}

\* .notEmpty() on the interestedEvents value
EventsNotEmpty(ev) ==
  CASE ev.kind = "missing" -> FALSE
    [] ev.kind = "scalar"  -> ev.val[1] # ""
    [] ev.kind = "array"   -> \A i \in 1..Len(ev.val) : ev.val[i] # ""

\* the .custom() validator of interestedEvents
EventsCustom(ev) ==
  CASE ev.kind = "missing" -> FALSE
    [] ev.kind = "scalar"  -> ev.val[1] \in validEvents
    [] ev.kind = "array"   -> \A i \in 1..Len(ev.val) : ev.val[i] \in validEvents

\* normalizeEmail() for a domain without provider-specific rules
normalizeEmail(s) == toLowerCase(s)

\* the set of messages validationResult(req) holds
validateRegistration(body) ==
     (IF trim(body.name) = <<>> THEN {"Name is required"} ELSE {})
  \cup (IF trim(body.ldapId) = <<>> THEN {"LDAP ID is required"} ELSE {})
  \cup (IF ~EndsWith(toLowerCase(trim(body.ldapId)), AtIitb)
        THEN {"Must be a valid IITB email address"} ELSE {})
  \cup (IF trim(body.rollNumber) = <<>> THEN {"Roll Number is required"} ELSE {})
  \cup (IF body.branch = "" THEN {"Branch is required"} ELSE {})
  \cup (IF body.branch \notin validBranches THEN {"Invalid branch"} ELSE {})
  \cup (IF body.year = "" THEN {"Year is required"} ELSE {})
  \cup (IF body.year \notin validYears THEN {"Invalid year"} ELSE {})
  \cup (IF ~EventsNotEmpty(body.interestedEvents)
        THEN {"Please select at least one event"} ELSE {})
  \cup (IF ~EventsCustom(body.interestedEvents)
        THEN {"Invalid event selection"} ELSE {})

\* req.body after the sanitizers of the chains ran
SanitizedBody(body) ==
  [body EXCEPT !.name = trim(body.name),
               !.ldapId = normalizeEmail(trim(body.ldapId)),
               !.rollNumber = toUpperCase(trim(body.rollNumber))]

(***************************************************************************)
(* The Registration schema.                                                *)
(***************************************************************************)
\* new Registration({...}) in register, with the schema's setters and defaults
NewRegistration(body, t) ==
  [id |-> 0,
   name |-> trim(body.name),
   ldapId |-> toLowerCase(trim(toLowerCase(body.ldapId))),
   rollNumber |-> toUpperCase(trim(toUpperCase(body.rollNumber))),
   branch |-> body.branch,
   year |-> body.year,
   interestedEvents |-> body.interestedEvents.val,
   registrationDate |-> t,
   registrationNumber |-> "",
   ipAddress |-> "10.0.0.1",
   userAgent |-> "curl",
   status |-> "confirmed"]

\* the validator of the ldapId path: /^[a-zA-Z0-9._%+-]+@iitb\.ac\.in$/
LdapIdPattern(v) ==
  /\ Len(v) > Len(AtIitb)
  /\ EndsWith(v, AtIitb)
  /\ \A i \in 1..(Len(v) - Len(AtIitb)) : v[i] \in LocalChars

\* messages of the ValidationError that save() raises; a required array
\* path is satisfied by any array, also one without elements
SchemaErrors(d) ==
     (IF d.name = <<>> THEN {"Name is required"} ELSE {})
  \cup (IF d.ldapId = <<>> THEN {"LDAP ID is required"}
        ELSE IF ~LdapIdPattern(d.ldapId)
             THEN {"Please enter a valid IITB email address"} ELSE {})
  \cup (IF d.rollNumber = <<>> THEN {"Roll Number is required"} ELSE {})
  \cup (IF d.branch = "" THEN {"Branch is required"} ELSE {})
  \cup (IF d.year = "" THEN {"Year is required"} ELSE {})
  \cup (IF d.status \notin {"pending", "confirmed", "cancelled"}
        THEN {"status is not a valid enum value"} ELSE {})

\* a pre-check that looks at the email only
checkExistingRegistration_LdapOnly(ldapId, rollNumber, st) ==
  {r \in st : r.ldapId = toLowerCase(ldapId)}

\* a pre-check that looks at the confirmed records only
checkExistingRegistration_ConfirmedOnly(ldapId, rollNumber, st) ==
  {r \in st : /\ r.status = "confirmed"
              /\ \/ r.ldapId = toLowerCase(ldapId)
                 \/ r.rollNumber = toUpperCase(rollNumber)}

\* Registration.checkExistingRegistration: the records findOne may return
checkExistingRegistration(ldapId, rollNumber, st) ==
  {r \in st : \/ r.ldapId = toLowerCase(ldapId)
              \/ r.rollNumber = toUpperCase(rollNumber)}

\* a collection without the unique index on ldapId
UniqueViolations_NoLdapIndex(d, st) ==
     (IF \E r \in st : r.rollNumber = d.rollNumber THEN {"rollNumber"} ELSE {})
  \cup (IF \E r \in st : r.registrationNumber = d.registrationNumber
        THEN {"registrationNumber"} ELSE {})

\* a collection without the unique index on registrationNumber
UniqueViolations_NoNumberIndex(d, st) ==
     (IF \E r \in st : r.ldapId = d.ldapId THEN {"ldapId"} ELSE {})
  \cup (IF \E r \in st : r.rollNumber = d.rollNumber THEN {"rollNumber"} ELSE {})

\* the unique indexes an insert of d into st violates
UniqueViolations(d, st) ==
     (IF \E r \in st : r.ldapId = d.ldapId THEN {"ldapId"} ELSE {})
  \cup (IF \E r \in st : r.rollNumber = d.rollNumber THEN {"rollNumber"} ELSE {})
  \cup (IF \E r \in st : r.registrationNumber = d.registrationNumber
        THEN {"registrationNumber"} ELSE {})

(***************************************************************************)
(* State.                                                                  *)
(***************************************************************************)
VARIABLES
  store,       \* the Registration collection: a set of documents
  nextId,      \* the _id the next inserted document receives
  now,         \* the clock (Date.now): one tick per register request
  pc,          \* per register request: "idle", "saving", "inserting", "done"
  req,         \* per register request: <<body as received>> or <<>>
  doc,         \* per register request: <<document under construction>> or <<>>
  resp,        \* per register request: the response sent (status 0: none yet)
  out,         \* the response of the administrative request just handled
  issued,      \* history: the registration numbers returned by 201 responses
  overlap,     \* history: the requests whose handling overlapped this one
  adminDuring, \* history: an update or delete ran since this request started
  stats,       \* the statistics request in flight: its position, what its
               \* queries returned so far, and (history) whether the store
               \* changed since it started
  retry        \* history, kept in SpecRetry only: the requests that failed
               \* on a registration number taken during their handling, and
               \* the requests that repeat such a request right away

vars == <<store, nextId, now, pc, req, doc, resp, out, issued, overlap,
          adminDuring, stats, retry>>

NoResp ==
  [status |-> 0, message |-> "", keys |-> {}, errors |-> {},
   registrationNumber |-> "", registrationDate |-> 0, data |-> <<>>]

NoOut ==
  [op |-> "", status |-> 0, isRegistered |-> FALSE, data |-> <<>>, count |-> 0]

\* res.status(400).json({ success: false, errors: errors.array() })
Resp400Validator(errs) ==
  [NoResp EXCEPT !.status = 400, !.keys = {"success", "errors"},
                 !.errors = errs]

\* the 409 of the duplicate pre-check
Resp409Existing(existing) ==
  [NoResp EXCEPT !.status = 409,
                 !.message = "You have already registered for the event",
                 !.keys = {"success", "message", "registrationNumber",
                           "registrationDate"},
                 !.registrationNumber = existing.registrationNumber,
                 !.registrationDate = existing.registrationDate]

\* the 201 of a persisted registration
Resp201(d) ==
  [NoResp EXCEPT !.status = 201, !.message = "Registration successful!",
                 !.keys = {"success", "message", "data"},
                 !.data = <<[registrationNumber |-> d.registrationNumber,
                             name |-> d.name,
                             ldapId |-> d.ldapId,
                             rollNumber |-> d.rollNumber,
                             events |-> d.interestedEvents,
                             registrationDate |-> d.registrationDate]>>]

\* the text the duplicate key handler puts in its message
DuplicateKeyMessage(field) ==
  IF field = "ldapId" THEN "This LDAP ID is already registered"
  ELSE "This Roll Number is already registered"

\* the catch block for error.code === 11000
Resp409DuplicateKey(field) ==
  [NoResp EXCEPT !.status = 409, !.message = DuplicateKeyMessage(field),
                 !.keys = {"success", "message"}]

\* the catch block for a mongoose ValidationError
Resp400Schema(errs) ==
  [NoResp EXCEPT !.status = 400, !.message = "Validation failed",
                 !.keys = {"success", "message", "errors"}, !.errors = errs]

InFlight(p) == pc[p] \in {"saving", "inserting"}

\* no statistics request in flight
StatsIdle ==
  [op |-> "", step |-> 0, query |-> "", quiet |-> TRUE, total |-> 0,
   events |-> {},
   branches |-> {}, years |-> {}, daily |-> {}, hourly |-> {},
   recent |-> <<>>]

\* the history of retries is not kept
RetryOff ==
  [on |-> FALSE, start |-> [p \in Procs |-> 0],
   failed |-> [p \in Procs |-> <<>>], retrying |-> [p \in Procs |-> FALSE]]

\* the history of retries is kept
RetryOn == [RetryOff EXCEPT !.on = TRUE]

\* the service after its start: an empty collection and no request
InitService ==
  /\ store = {}
  /\ nextId = 1
  /\ now = 0
  /\ pc = [p \in Procs |-> "idle"]
  /\ req = [p \in Procs |-> <<>>]
  /\ doc = [p \in Procs |-> <<>>]
  /\ resp = [p \in Procs |-> NoResp]
  /\ out = NoOut
  /\ issued = {}
  /\ overlap = [p \in Procs |-> {}]
  /\ adminDuring = [p \in Procs |-> FALSE]
  /\ stats = StatsIdle

Init == InitService /\ retry = RetryOff

\* history bookkeeping when request p starts
StartHistory(p) ==
  /\ overlap' = [q \in Procs |->
                   IF q = p THEN {r \in Procs \ {p} : InFlight(r)}
                   ELSE IF InFlight(q) THEN overlap[q] \cup {p}
                   ELSE overlap[q]]
  /\ adminDuring' = [adminDuring EXCEPT ![p] = FALSE]

\* history bookkeeping of a step of request p: what it notes for p, and that
\* the requests of the others are no longer followed at once by their retry
RetryHistory(p, start, failed, retrying) ==
  retry' = IF ~retry.on THEN retry
           ELSE [on |-> TRUE,
                 start |-> [retry.start EXCEPT ![p] = start],
                 failed |-> [q \in Procs |-> IF q = p THEN failed ELSE <<>>],
                 retrying |-> [q \in Procs |-> IF q = p THEN retrying
                                               ELSE FALSE]]

\* history bookkeeping of an update or delete: no request is followed at
\* once by its retry any more
RetryReset ==
  retry' = IF ~retry.on THEN retry
           ELSE [retry EXCEPT !.failed = [q \in Procs |-> <<>>],
                              !.retrying = [q \in Procs |-> FALSE]]

\* history bookkeeping of a step that may have changed the store
StatsHistory ==
  stats' = IF stats.op = "" \/ store' = store THEN stats
           ELSE [stats EXCEPT !.quiet = FALSE]

(***************************************************************************)
(* register, up to its first store access: the validator result, the       *)
(* duplicate pre-check and the construction of the document.               *)
(***************************************************************************)
RegisterCheck(p, body) ==
  /\ out = NoOut
  /\ pc[p] = "idle"
  /\ now' = now + 1
  /\ req' = [req EXCEPT ![p] = <<body>>]
  /\ LET errs == validateRegistration(body)
         b == SanitizedBody(body)
         existing == checkExistingRegistration(b.ldapId, b.rollNumber, store)
     IN IF errs # {}
        THEN /\ resp' = [resp EXCEPT ![p] = Resp400Validator(errs)]
             /\ pc' = [pc EXCEPT ![p] = "done"]
             /\ doc' = doc
        ELSE IF existing # {}
        THEN /\ \E e \in existing :
                  resp' = [resp EXCEPT ![p] = Resp409Existing(e)]
             /\ pc' = [pc EXCEPT ![p] = "done"]
             /\ doc' = doc
        ELSE /\ doc' = [doc EXCEPT ![p] = <<NewRegistration(b, now)>>]
             /\ pc' = [pc EXCEPT ![p] = "saving"]
             /\ resp' = resp
  /\ StartHistory(p)
  /\ RetryHistory(p, nextId, <<>>, retry.failed[p] = <<body>>)
  /\ UNCHANGED <<store, nextId, out, issued, stats>>

(***************************************************************************)
(* save(): schema validation, then the pre('save') hook that counts the    *)
(* documents and derives the registration number.                          *)
(***************************************************************************)
RegisterPreSave(p) ==
  /\ out = NoOut
  /\ pc[p] = "saving"
  /\ LET d == doc[p][1]
         errs == SchemaErrors(d)
     IN IF errs # {}
        THEN /\ resp' = [resp EXCEPT ![p] = Resp400Schema(errs)]
             /\ pc' = [pc EXCEPT ![p] = "done"]
             /\ doc' = doc
        ELSE /\ doc' = [doc EXCEPT ![p] =
                   <<IF d.registrationNumber = ""
                     THEN [d EXCEPT !.registrationNumber =
                             GenerateRegistrationNumber(Cardinality(store), now)]
                     ELSE d>>]
             /\ pc' = [pc EXCEPT ![p] = "inserting"]
             /\ resp' = resp
  /\ RetryHistory(p, retry.start[p], <<>>, retry.retrying[p])
  /\ UNCHANGED <<store, nextId, now, req, out, issued, overlap, adminDuring,
                 stats>>

(***************************************************************************)
(* save(): the insert, checked by the unique indexes, and the response.    *)
(***************************************************************************)
\* the insert of d fails on the registration number only, and the record
\* that has the number was inserted after the request was received (ids are
\* given in the order of the inserts)
NumberTakenMeanwhile(d, st, start) ==
  /\ UniqueViolations(d, st) = {"registrationNumber"}
  /\ \E x \in st : /\ x.registrationNumber = d.registrationNumber
                    /\ x.id >= start

RegisterInsert(p) ==
  /\ out = NoOut
  /\ pc[p] = "inserting"
  /\ LET d == doc[p][1]
         violated == UniqueViolations(d, store)
     IN IF violated = {}
        THEN /\ store' = store \cup {[d EXCEPT !.id = nextId]}
             /\ nextId' = nextId + 1
             /\ resp' = [resp EXCEPT ![p] = Resp201(d)]
             /\ issued' = issued \cup {d.registrationNumber}
        ELSE /\ \E field \in violated :
                  resp' = [resp EXCEPT ![p] = Resp409DuplicateKey(field)]
             /\ UNCHANGED <<store, nextId, issued>>
  /\ pc' = [pc EXCEPT ![p] = "done"]
  /\ StatsHistory
  /\ RetryHistory(p, retry.start[p],
                  IF NumberTakenMeanwhile(doc[p][1], store, retry.start[p])
                  THEN req[p] ELSE <<>>,
                  FALSE)
  /\ UNCHANGED <<now, req, doc, out, overlap, adminDuring>>

\* the response has been delivered; the slot is free for the next request
Respond(p) ==
  /\ out = NoOut
  /\ pc[p] = "done"
  /\ pc' = [pc EXCEPT ![p] = "idle"]
  /\ req' = [req EXCEPT ![p] = <<>>]
  /\ doc' = [doc EXCEPT ![p] = <<>>]
  /\ resp' = [resp EXCEPT ![p] = NoResp]
  /\ overlap' = [overlap EXCEPT ![p] = {}]
  /\ adminDuring' = [adminDuring EXCEPT ![p] = FALSE]
  /\ UNCHANGED <<store, nextId, now, out, issued, stats, retry>>

(***************************************************************************)
(* Administrative handlers.                                                *)
(***************************************************************************)
StatusInputs == {"pending", "cancelled", "bogus"}

\* an update that accepts any status value
IsValidStatus_Any(status) == TRUE

\* ['pending', 'confirmed', 'cancelled'].includes(status)
IsValidStatus(status) == status \in {"pending", "confirmed", "cancelled"}

\* a query that ignores the registration number
findByNumber_Any(registrationNumber, st) == st

\* the documents the query { registrationNumber } matches
findByNumber(registrationNumber, st) ==
  {r \in st : r.registrationNumber = registrationNumber}

\* a serialization without the transform
toJSON_Raw(r) == r

\* the toJSON transform of the schema
toJSON(r) == [f \in DOMAIN r \ {"ipAddress", "userAgent"} |-> r[f]]

\* .select('-a -b'): the document without the excluded paths
selectWithout(r, excluded) == [f \in DOMAIN r \ excluded |-> r[f]]

\* .select('a b'): the document with the named paths and its _id
selectOnly(r, paths) == [f \in (paths \cup {"id"}) \cap DOMAIN r |-> r[f]]

\* the registration numbers an administrative request may name
NumberInputs == {r.registrationNumber : r \in store} \cup {"BW0"}

\* an update that replaces the document and so loses its number
ApplyStatus_Renumber(r, status) ==
  [r EXCEPT !.status = status, !.registrationNumber = ""]

\* an update that overwrites the document with the update document
ApplyStatus_Replace(r, status) ==
  [r EXCEPT !.status = status, !.year = "", !.interestedEvents = <<>>]

\* the update document { status } applied by findOneAndUpdate
ApplyStatus(r, status) == [r EXCEPT !.status = status]

AdminHistory ==
  /\ adminDuring' = [p \in Procs |-> IF pc[p] # "idle" THEN TRUE
                                     ELSE adminDuring[p]]
  /\ overlap' = overlap
  /\ StatsHistory
  /\ RetryReset

updateRegistrationStatus(registrationNumber, status) ==
  /\ out = NoOut
  /\ IF ~IsValidStatus(status)
     THEN /\ out' = [NoOut EXCEPT !.op = "updateStatus", !.status = 400]
          /\ store' = store
     ELSE LET found == findByNumber(registrationNumber, store)
          IN IF found = {}
             THEN /\ out' = [NoOut EXCEPT !.op = "updateStatus", !.status = 404]
                  /\ store' = store
             ELSE \E r \in found :
                    /\ store' = (store \ {r}) \cup {ApplyStatus(r, status)}
                    /\ out' = [NoOut EXCEPT
                                 !.op = "updateStatus", !.status = 200,
                                 !.data = <<toJSON(ApplyStatus(r, status))>>]
  /\ AdminHistory
  /\ UNCHANGED <<nextId, now, pc, req, doc, resp, issued>>

deleteRegistration(registrationNumber) ==
  /\ out = NoOut
  /\ LET found == findByNumber(registrationNumber, store)
     IN IF found = {}
        THEN /\ out' = [NoOut EXCEPT !.op = "delete", !.status = 404]
             /\ store' = store
        ELSE \E r \in found :
               /\ store' = store \ {r}
               /\ out' = [NoOut EXCEPT !.op = "delete", !.status = 200]
  /\ AdminHistory
  /\ UNCHANGED <<nextId, now, pc, req, doc, resp, issued>>

\* the response of an administrative or lookup request has been delivered
Deliver ==
  /\ out # NoOut
  /\ out' = NoOut
  /\ UNCHANGED <<store, nextId, now, pc, req, doc, resp, issued, overlap,
                 adminDuring, stats, retry>>

\* the identifiers a lookup may name
IdentifierInputs == {toUpperCase(Str_a), Roll_1, Roll_2}

\* GET /check-registration/:identifier
checkRegistration(identifier) ==
  /\ out = NoOut
  /\ identifier # <<>>
  /\ LET found ==
           IF includes(identifier, "@")
           THEN {r \in store : r.ldapId = toLowerCase(identifier)}
           ELSE {r \in store : r.rollNumber = toUpperCase(identifier)}
     IN IF found = {}
        THEN out' = [NoOut EXCEPT !.op = "check", !.status = 404]
        ELSE \E r \in found :
               out' = [NoOut EXCEPT
                         !.op = "check", !.status = 200, !.isRegistered = TRUE,
                         !.data = <<[registrationNumber |-> r.registrationNumber,
                                     name |-> r.name,
                                     events |-> r.interestedEvents,
                                     registrationDate |-> r.registrationDate]>>]
  /\ UNCHANGED <<store, nextId, now, pc, req, doc, resp, issued, overlap,
                 adminDuring, stats, retry>>

(***************************************************************************)
(* Read handlers of the registration controller.                           *)
(***************************************************************************)
\* the documents of st as an array, latest registrationDate first
RECURSIVE SortByDateDesc(_)
SortByDateDesc(st) ==
  IF st = {} THEN <<>>
  ELSE LET latest == CHOOSE r \in st :
                       \A q \in st : q.registrationDate <= r.registrationDate
       IN <<latest>> \o SortByDateDesc(st \ {latest})

\* .limit(n)
limit(seq, n) == IF Len(seq) <= n THEN seq ELSE SubSeq(seq, 1, n)

\* array.join(sep)
RECURSIVE join(_, _)
join(seq, sep) ==
  IF seq = <<>> THEN ""
  ELSE IF Len(seq) = 1 THEN seq[1]
  ELSE seq[1] \o sep \o join(Tail(seq), sep)

\* a query condition { interestedEvents: event } on the array path
HasEvent(r, event) ==
  \E i \in 1..Len(r.interestedEvents) : r.interestedEvents[i] = event

\* what the response shows of a document found with
\* .select('-ipAddress -userAgent')
PublicDocument(r) == toJSON(selectWithout(r, {"ipAddress", "userAgent"}))

\* GET /registration/:registrationNumber
getRegistrationByNumber(registrationNumber) ==
  /\ out = NoOut
  /\ LET found == findByNumber(registrationNumber, store)
     IN IF found = {}
        THEN out' = [NoOut EXCEPT !.op = "getByNumber", !.status = 404]
        ELSE \E r \in found :
               out' = [NoOut EXCEPT !.op = "getByNumber", !.status = 200,
                                    !.data = <<PublicDocument(r)>>]
  /\ UNCHANGED <<store, nextId, now, pc, req, doc, resp, issued, overlap,
                 adminDuring, stats, retry>>

\* the event filters a listing may name; "" stands for no filter
EventFilterInputs == {"", "Both"}

\* the query object getAllRegistrations builds from req.query
ListQuery(event, st) ==
  IF event = "" THEN st ELSE {r \in st : HasEvent(r, event)}

\* GET /registrations, up to its first query: countDocuments(query)
getAllRegistrations_count(event) ==
  /\ out = NoOut
  /\ stats.op = ""
  /\ stats' = [StatsIdle EXCEPT !.op = "list", !.step = 1,
                                !.query = event,
                                !.total = Cardinality(ListQuery(event, store))]
  /\ UNCHANGED <<store, nextId, now, pc, req, doc, resp, out, issued, overlap,
                 adminDuring, retry>>

\* GET /registrations: the find with the default page, limit and sort order,
\* and the response
getAllRegistrations_find ==
  /\ out = NoOut
  /\ stats.op = "list" /\ stats.step = 1
  /\ out' = [NoOut EXCEPT
               !.op = "list", !.status = 200, !.count = stats.total,
               !.data =
                  LET registrations ==
                        limit(SortByDateDesc(ListQuery(stats.query, store)), 50)
                  IN [i \in 1..Len(registrations) |->
                        PublicDocument(registrations[i])]]
  /\ stats' = StatsIdle
  /\ UNCHANGED <<store, nextId, now, pc, req, doc, resp, issued, overlap,
                 adminDuring, retry>>

\* one row of the export; no request of the model carries a phoneNumber
CsvRow(reg) ==
  [registrationNumber |-> reg.registrationNumber,
   name |-> reg.name,
   ldapId |-> reg.ldapId,
   rollNumber |-> reg.rollNumber,
   branch |-> reg.branch,
   year |-> reg.year,
   events |-> join(reg.interestedEvents, ", "),
   phone |-> "N/A",
   registrationDate |-> reg.registrationDate,
   status |-> reg.status]

\* GET /registrations/export
exportRegistrations ==
  /\ out = NoOut
  /\ LET found == SortByDateDesc(store)
         registrations ==
           [i \in 1..Len(found) |->
              selectWithout(found[i], {"ipAddress", "userAgent", "id"})]
         csvData ==
           [i \in 1..Len(registrations) |-> CsvRow(registrations[i])]
     IN out' = [NoOut EXCEPT !.op = "export", !.status = 200,
                             !.data = csvData, !.count = Len(csvData)]
  /\ UNCHANGED <<store, nextId, now, pc, req, doc, resp, issued, overlap,
                 adminDuring, stats, retry>>

(***************************************************************************)
(* The statistics controller.  An aggregation result is the set of its     *)
(* { _id, count } groups; $sort orders the groups and changes none.        *)
(***************************************************************************)
\* a filter that matches every document
Confirmed_All(st) == st

\* the filter { status: 'confirmed' }
Confirmed(st) == {r \in st : r.status = "confirmed"}

\* { $unwind: '$interestedEvents' }: one document per array element
Unwind(st) ==
  UNION {{[id |-> r.id, pos |-> i, interestedEvents |-> r.interestedEvents[i]] :
            i \in 1..Len(r.interestedEvents)} : r \in st}

\* { $group: { _id: key, count: { $sum: 1 } } } over documents given as
\* [key |-> the value of the _id expression, doc |-> the document's identity]
Group(keyed) ==
  {[id |-> k, count |-> Cardinality({x \in keyed : x.key = k})] :
     k \in {x.key : x \in keyed}}

\* the documents of st under the key of the path or expression of a $group
ByEvent(st) ==
  {[key |-> r.interestedEvents, doc |-> <<r.id, r.pos>>] : r \in st}
ByBranch(st) == {[key |-> r.branch, doc |-> r.id] : r \in st}
ByYear(st) == {[key |-> r.year, doc |-> r.id] : r \in st}

\* the clock counts hours of a shortened calendar
dayOf(t) == [year |-> getFullYear(t), day |-> (t % TicksPerYear) \div TicksPerDay]
hourOf(t) == t % TicksPerDay
sevenDaysAgo(t) == t - 7 * TicksPerDay

ByDay(st) == {[key |-> dayOf(r.registrationDate), doc |-> r.id] : r \in st}
ByHour(st) == {[key |-> hourOf(r.registrationDate), doc |-> r.id] : r \in st}

\* a percentage as the code prints it: hundredths of a percent, or not
\* finite after a division by zero
Finite(hundredths) == [finite |-> TRUE, hundredths |-> hundredths]
NotFinite == [finite |-> FALSE, hundredths |-> 0]

\* ((count / total) * 100).toFixed(2)
Percentage(count, total) ==
  IF total = 0 THEN NotFinite
  ELSE Finite((2 * count * 10000 + total) \div (2 * total))

\* total > 0 ? ((count / total) * 100).toFixed(2) : 0
GuardedPercentage(count, total) ==
  IF total > 0 THEN Percentage(count, total) ELSE Finite(0)

\* stat => ({ ..., count: stat.count, percentage: ... })
WithPercentage(groups, total) ==
  {[id |-> g.id, count |-> g.count,
    percentage |-> Percentage(g.count, total)] : g \in groups}

\* GET /stats, first query: countDocuments({ status: 'confirmed' })
getStats_total ==
  /\ out = NoOut
  /\ stats.op = ""
  /\ stats' = [StatsIdle EXCEPT !.op = "getStats", !.step = 1,
                                !.total = Cardinality(Confirmed(store))]
  /\ UNCHANGED <<store, nextId, now, pc, req, doc, resp, out, issued, overlap,
                 adminDuring, retry>>

\* GET /stats: the event-wise aggregation
getStats_events ==
  /\ out = NoOut
  /\ stats.op = "getStats" /\ stats.step = 1
  /\ stats' = [stats EXCEPT
                 !.step = 2,
                 !.events = Group(ByEvent(Unwind(Confirmed(store))))]
  /\ UNCHANGED <<store, nextId, now, pc, req, doc, resp, out, issued, overlap,
                 adminDuring, retry>>

\* GET /stats: the branch-wise aggregation
getStats_branches ==
  /\ out = NoOut
  /\ stats.op = "getStats" /\ stats.step = 2
  /\ stats' = [stats EXCEPT
                 !.step = 3,
                 !.branches = Group(ByBranch(Confirmed(store)))]
  /\ UNCHANGED <<store, nextId, now, pc, req, doc, resp, out, issued, overlap,
                 adminDuring, retry>>

\* GET /stats: the year-wise aggregation
getStats_years ==
  /\ out = NoOut
  /\ stats.op = "getStats" /\ stats.step = 3
  /\ stats' = [stats EXCEPT
                 !.step = 4,
                 !.years = Group(ByYear(Confirmed(store)))]
  /\ UNCHANGED <<store, nextId, now, pc, req, doc, resp, out, issued, overlap,
                 adminDuring, retry>>

\* GET /stats: the daily trend of the last seven days
getStats_daily ==
  /\ out = NoOut
  /\ stats.op = "getStats" /\ stats.step = 4
  /\ stats' = [stats EXCEPT
                 !.step = 5,
                 !.daily =
                    Group(ByDay({r \in Confirmed(store) :
                                   r.registrationDate >= sevenDaysAgo(now)}))]
  /\ UNCHANGED <<store, nextId, now, pc, req, doc, resp, out, issued, overlap,
                 adminDuring, retry>>

\* GET /stats: the hourly distribution
getStats_hourly ==
  /\ out = NoOut
  /\ stats.op = "getStats" /\ stats.step = 5
  /\ stats' = [stats EXCEPT
                 !.step = 6,
                 !.hourly = Group(ByHour(Confirmed(store)))]
  /\ UNCHANGED <<store, nextId, now, pc, req, doc, resp, out, issued, overlap,
                 adminDuring, retry>>

\* GET /stats: the ten most recent registrations
getStats_recent ==
  /\ out = NoOut
  /\ stats.op = "getStats" /\ stats.step = 6
  /\ stats' = [stats EXCEPT
                 !.step = 7,
                 !.recent =
                    LET found == limit(SortByDateDesc(Confirmed(store)), 10)
                    IN [i \in 1..Len(found) |->
                          selectOnly(found[i],
                                     {"name", "rollNumber", "branch",
                                      "interestedEvents", "registrationDate",
                                      "registrationNumber"})]]
  /\ UNCHANGED <<store, nextId, now, pc, req, doc, resp, out, issued, overlap,
                 adminDuring, retry>>

\* the body of the 200 response of GET /stats
StatsResponse(st, bothEventsCount) ==
  [summary |->
     [totalRegistrations |-> st.total,
      bothEventsPercentage |-> GuardedPercentage(bothEventsCount, st.total)],
   distributions |->
     [events |-> WithPercentage(st.events, st.total),
      branches |-> WithPercentage(st.branches, st.total),
      years |-> WithPercentage(st.years, st.total)],
   trends |->
     [daily |-> st.daily,
      hourly |-> {[hour |-> NumToString(h.id) \o ":00", count |-> h.count] :
                    h \in st.hourly}],
   recentRegistrations |-> [i \in 1..Len(st.recent) |-> toJSON(st.recent[i])]]

\* GET /stats: the count of the registrations for 'Both', and the response
getStats_both ==
  /\ out = NoOut
  /\ stats.op = "getStats" /\ stats.step = 7
  /\ LET bothEventsCount ==
           Cardinality({r \in Confirmed(store) : HasEvent(r, "Both")})
     IN out' = [NoOut EXCEPT !.op = "getStats", !.status = 200,
                             !.data = <<StatsResponse(stats, bothEventsCount)>>]
  /\ stats' = StatsIdle
  /\ UNCHANGED <<store, nextId, now, pc, req, doc, resp, issued, overlap,
                 adminDuring, retry>>

\* GET /stats/live-count, first query
getLiveCount_total ==
  /\ out = NoOut
  /\ stats.op = ""
  /\ stats' = [StatsIdle EXCEPT !.op = "liveCount", !.step = 1,
                                !.total = Cardinality(Confirmed(store))]
  /\ UNCHANGED <<store, nextId, now, pc, req, doc, resp, out, issued, overlap,
                 adminDuring, retry>>

\* the count of the group of an event, 0 if the aggregation has no such group
CountOf(groups, event) ==
  IF \E g \in groups : g.id = event
  THEN (CHOOSE g \in groups : g.id = event).count
  ELSE 0

\* GET /stats/live-count: the event aggregation and the response
getLiveCount_events ==
  /\ out = NoOut
  /\ stats.op = "liveCount" /\ stats.step = 1
  /\ LET eventCounts == Group(ByEvent(Unwind(Confirmed(store))))
     IN out' = [NoOut EXCEPT
                  !.op = "liveCount", !.status = 200,
                  !.data = <<[total |-> stats.total,
                              blitz |-> CountOf(eventCounts, "ScaleUp Blitz"),
                              ignite |-> CountOf(eventCounts, "ScaleUp Ignite"),
                              both |-> CountOf(eventCounts, "Both")]>>]
  /\ stats' = StatsIdle
  /\ UNCHANGED <<store, nextId, now, pc, req, doc, resp, issued, overlap,
                 adminDuring, retry>>

\* the event names a per-event statistics request may carry
EventNameInputs == {"ScaleUp Blitz", "Both", "both", "Workshop"}

\* a per-event query that does not look at the status
EventRegistrations_AnyStatus(eventName, st) ==
  {r \in st : HasEvent(r, eventName)}

\* find({ status: 'confirmed', interestedEvents: eventName })
EventRegistrations(eventName, st) ==
  {r \in Confirmed(st) : HasEvent(r, eventName)}

\* GET /stats/event/:eventName
getEventStats(eventName) ==
  /\ out = NoOut
  /\ IF eventName \notin {"ScaleUp Blitz", "ScaleUp Ignite", "Both"}
     THEN out' = [NoOut EXCEPT !.op = "eventStats", !.status = 400]
     ELSE LET registrations == EventRegistrations(eventName, store)
          IN out' = [NoOut EXCEPT
                       !.op = "eventStats", !.status = 200,
                       !.data =
                          <<[event |-> eventName,
                             totalRegistrations |-> Cardinality(registrations),
                             branchDistribution |->
                               Group(ByBranch(registrations)),
                             yearDistribution |->
                               Group(ByYear(registrations))]>>]
  /\ UNCHANGED <<store, nextId, now, pc, req, doc, resp, issued, overlap,
                 adminDuring, stats, retry>>

\* A handler that answers after a single store access is one step; its
\* response is delivered before the next step is looked at (every other
\* action waits for out = NoOut), since no handler reads the response of
\* another.
Next ==
  \/ \E p \in Procs, body \in Bodies :
       now < MaxRequests /\ RegisterCheck(p, body)
  \/ \E p \in Procs : RegisterPreSave(p)
  \/ \E p \in Procs : RegisterInsert(p)
  \/ \E p \in Procs : Respond(p)
  \/ \E n \in NumberInputs, s \in StatusInputs : updateRegistrationStatus(n, s)
  \/ \E n \in NumberInputs : deleteRegistration(n)
  \/ \E i \in IdentifierInputs : checkRegistration(i)
  \/ Deliver

Spec == Init /\ [][Next]_vars

NextLong ==
  \/ \E p \in Procs, body \in LongBodies :
       now < MaxLongRequests /\ RegisterCheck(p, body)
  \/ \E p \in Procs : RegisterPreSave(p)
  \/ \E p \in Procs : RegisterInsert(p)
  \/ \E p \in Procs : Respond(p)
  \/ \E n \in NumberInputs : deleteRegistration(n)
  \/ Deliver

\* longer histories of registrations and deletes over fewer request bodies
SpecLong == Init /\ [][NextLong]_vars

InitRetry == InitService /\ retry = RetryOn

NextRetry ==
  \/ \E p \in Procs, body \in RetryBodies :
       now < MaxRetryRequests /\ RegisterCheck(p, body)
  \/ \E p \in Procs : RegisterPreSave(p)
  \/ \E p \in Procs : RegisterInsert(p)
  \/ \E p \in Procs : Respond(p)
  \/ \E n \in NumberInputs : deleteRegistration(n)
  \/ Deliver

\* registrations of three people and deletes, with the history of the
\* requests that are repeated right after a taken registration number
SpecRetry == InitRetry /\ [][NextRetry]_vars

\* the identifiers a lookup of SpecOps may name: an email and a roll number
\* in both letter cases, and the email with a leading blank
OpsIdentifiers ==
  {Str_a, toUpperCase(Str_a), Str_A, Roll_1, toUpperCase(Roll_1)}

NextOps ==
  \/ \E body \in OpsBodies :
       now < MaxOpsRequests /\ RegisterCheck("r1", body)
  \/ RegisterPreSave("r1")
  \/ RegisterInsert("r1")
  \/ Respond("r1")
  \/ \E n \in NumberInputs, s \in StatusInputs : updateRegistrationStatus(n, s)
  \/ \E n \in NumberInputs : deleteRegistration(n)
  \/ \E i \in OpsIdentifiers : checkRegistration(i)
  \/ \E n \in NumberInputs : getRegistrationByNumber(n)
  \/ \E e \in EventFilterInputs : getAllRegistrations_count(e)
  \/ getAllRegistrations_find
  \/ exportRegistrations
  \/ \E e \in EventNameInputs : getEventStats(e)
  \/ Deliver

\* the operations of the registration controller and the per-event
\* statistics, with one register request at a time
SpecOps == Init /\ [][NextOps]_vars

\* the status value an update of SpecStats may carry
StatsStatusInputs == {"pending"}

NextStats ==
  \/ \E body \in StatsBodies :
       now < MaxStatsRequests /\ RegisterCheck("r1", body)
  \/ RegisterPreSave("r1")
  \/ RegisterInsert("r1")
  \/ Respond("r1")
  \/ \E n \in NumberInputs, s \in StatsStatusInputs :
       updateRegistrationStatus(n, s)
  \/ \E n \in NumberInputs : deleteRegistration(n)
  \/ getStats_total
  \/ getStats_events
  \/ getStats_branches
  \/ getStats_years
  \/ getStats_daily
  \/ getStats_hourly
  \/ getStats_recent
  \/ getStats_both
  \/ getLiveCount_total
  \/ getLiveCount_events
  \/ Deliver

\* the statistics requests, query by query, among registrations, status
\* updates and deletes
SpecStats == Init /\ [][NextStats]_vars

NextAll ==
  \/ \E body \in OpsBodies :
       now < MaxAllRequests /\ RegisterCheck("r1", body)
  \/ RegisterPreSave("r1")
  \/ RegisterInsert("r1")
  \/ Respond("r1")
  \/ \E n \in NumberInputs, s \in StatusInputs : updateRegistrationStatus(n, s)
  \/ \E n \in NumberInputs : deleteRegistration(n)
  \/ \E i \in OpsIdentifiers : checkRegistration(i)
  \/ \E n \in NumberInputs : getRegistrationByNumber(n)
  \/ \E e \in EventFilterInputs : getAllRegistrations_count(e)
  \/ getAllRegistrations_find
  \/ exportRegistrations
  \/ getStats_total
  \/ getStats_events
  \/ getStats_branches
  \/ getStats_years
  \/ getStats_daily
  \/ getStats_hourly
  \/ getStats_recent
  \/ getStats_both
  \/ getLiveCount_total
  \/ getLiveCount_events
  \/ \E e \in EventNameInputs : getEventStats(e)
  \/ Deliver

\* every operation of the service
SpecAll == Init /\ [][NextAll]_vars

(***************************************************************************)
(* Properties.                                                             *)
(***************************************************************************)
\* the Identity Normalizer of the specification
NormalEmail(x) == toLowerCase(trim(x))
NormalRoll(x) == toUpperCase(trim(x))

\* the stored records a request body collides with
Colliding(body, st) ==
  {r \in st : \/ toLowerCase(r.ldapId) = NormalEmail(body.ldapId)
              \/ toUpperCase(r.rollNumber) = NormalRoll(body.rollNumber)}

\* request p is received in this step
Received(p) == pc[p] = "idle" /\ pc'[p] # "idle"

\* request p performs its insert in this step
Inserting(p) == pc[p] = "inserting" /\ pc'[p] = "done"

\* the 409 that the duplicate key handler sends
IsDuplicateKey409(r) == r.status = 409 /\ r.keys = {"success", "message"}

\* C1: no two stored records have the same lower-cased ldapId, and no two
\* have the same upper-cased rollNumber
C1_IdentityUnique ==
  \A x, y \in store :
    (\/ toLowerCase(x.ldapId) = toLowerCase(y.ldapId)
     \/ toUpperCase(x.rollNumber) = toUpperCase(y.rollNumber)) => x = y

\* C1 witness: a record is stored and a request for the same email with
\* another roll number, which had passed the pre-check, was refused at
\* persist time
C1_Witness ==
  \E p \in Procs, x \in store :
    /\ pc[p] = "done" /\ IsDuplicateKey409(resp[p])
    /\ doc[p][1].ldapId = x.ldapId
    /\ doc[p][1].rollNumber # x.rollNumber
    /\ doc[p][1].registrationNumber # x.registrationNumber

\* request p ran with no other request between its receipt and now
Undisturbed(p) == overlap[p] = {} /\ ~adminDuring[p]

\* C2: a register call that runs without any concurrent request, with a valid
\* candidate that matches no stored record, responds 201 and adds exactly
\* one record; a later call with the same email or the same roll number in
\* any letter case responds 409
C2_QuietRegisterSucceeds ==
  [][\A p \in Procs :
       /\ (Inserting(p) /\ Undisturbed(p)) =>
             /\ resp'[p].status = 201
             /\ store \subseteq store'
             /\ Cardinality(store') = Cardinality(store) + 1
       /\ (/\ Received(p)
           /\ validateRegistration(req'[p][1]) = {}
           /\ Colliding(req'[p][1], store) # {}) => resp'[p].status = 409]_vars

\* C3 as stated: a register call whose email or roll number matches a stored
\* record responds 409 with the registrationNumber and registrationDate of a
\* stored record that matches, and leaves the store unchanged
C3_Original ==
  [][\A p \in Procs :
       (Received(p) /\ Colliding(req'[p][1], store) # {}) =>
          /\ resp'[p].status = 409
          /\ \E x \in Colliding(req'[p][1], store) :
               /\ resp'[p].registrationNumber = x.registrationNumber
               /\ resp'[p].registrationDate = x.registrationDate
          /\ store' = store]_vars

\* C3 amended: a register call that passes the request validation and whose
\* email or roll number matches a stored record responds 409 with the
\* registrationNumber and registrationDate of a stored record that matches,
\* and leaves the store unchanged
C3_Amended ==
  [][\A p \in Procs :
       (/\ Received(p)
        /\ validateRegistration(req'[p][1]) = {}
        /\ Colliding(req'[p][1], store) # {}) =>
          /\ resp'[p].status = 409
          /\ {"registrationNumber", "registrationDate"} \subseteq resp'[p].keys
          /\ \E x \in Colliding(req'[p][1], store) :
               /\ resp'[p].registrationNumber = x.registrationNumber
               /\ resp'[p].registrationDate = x.registrationDate
          /\ store' = store]_vars

\* C3 witness: a valid request with a new email and the roll number of a
\* stored record, written in another letter case, was answered 409 with
\* that record's number
C3_Witness ==
  \E p \in Procs, x \in store :
    /\ pc[p] = "done" /\ resp[p].status = 409
    /\ validateRegistration(req[p][1]) = {}
    /\ resp[p].registrationNumber = x.registrationNumber
    /\ NormalEmail(req[p][1].ldapId) # x.ldapId
    /\ NormalRoll(req[p][1].rollNumber) = x.rollNumber
    /\ req[p][1].rollNumber # x.rollNumber

\* C4: no two stored records have the same registrationNumber; an insert
\* whose number is already stored fails and stores nothing
C4_NumberUnique ==
  [][/\ \A x, y \in store' :
          x.registrationNumber = y.registrationNumber => x = y
     /\ \A p \in Procs :
          (/\ Inserting(p)
           /\ \E x \in store :
                x.registrationNumber = doc[p][1].registrationNumber) =>
             (IsDuplicateKey409(resp'[p]) /\ store' = store)]_vars

\* C4 witness: two requests for different identities read the same count;
\* one is stored with the number and the other was refused at persist time
C4_Witness ==
  \E p \in Procs, x \in store :
    /\ pc[p] = "done" /\ IsDuplicateKey409(resp[p])
    /\ doc[p][1].registrationNumber = x.registrationNumber
    /\ doc[p][1].ldapId # x.ldapId
    /\ doc[p][1].rollNumber # x.rollNumber

\* C5: no registrationNumber is returned by two different 201 responses
C5_NeverReissued ==
  [][\A p \in Procs :
       (Inserting(p) /\ resp'[p].status = 201) =>
          resp'[p].data[1].registrationNumber \notin issued]_vars

\* the requests p and q passed the pre-check before either persisted, and no
\* update or delete ran since
Raced(p, q) ==
  /\ p # q
  /\ q \in overlap[p] /\ p \in overlap[q]
  /\ doc[p] # <<>> /\ doc[q] # <<>>
  /\ ~adminDuring[p] /\ ~adminDuring[q]

\* C6: of two register calls with the same normalized email or roll number
\* that both pass the pre-check before either persists, one responds 201,
\* the other 409, and exactly one record is stored
C6_RaceOneWinner ==
  \A p, q \in Procs :
    (/\ Raced(p, q)
     /\ pc[p] = "done" /\ pc[q] = "done"
     /\ SchemaErrors(doc[p][1]) = {} /\ SchemaErrors(doc[q][1]) = {}
     /\ \/ doc[p][1].ldapId = doc[q][1].ldapId
        \/ doc[p][1].rollNumber = doc[q][1].rollNumber) =>
       /\ {resp[p].status, resp[q].status} = {201, 409}
       /\ Cardinality({x \in store : \/ x.ldapId = doc[p][1].ldapId
                                     \/ x.rollNumber = doc[p][1].rollNumber
                                     \/ x.ldapId = doc[q][1].ldapId
                                     \/ x.rollNumber = doc[q][1].rollNumber}) = 1

\* C7: every 409 response of register carries the registrationNumber and
\* registrationDate of the stored record the request collided with
C7_Every409NamesRecord ==
  [][\A p \in Procs :
       (resp[p].status = 0 /\ resp'[p].status = 409) =>
          /\ {"registrationNumber", "registrationDate"} \subseteq resp'[p].keys
          /\ \E x \in store :
               /\ resp'[p].registrationNumber = x.registrationNumber
               /\ resp'[p].registrationDate = x.registrationDate]_vars

\* C8: the 409 of a uniqueness violation at persist time says the email is
\* already registered only if a stored record has that email, and says the
\* roll number is already registered only if a stored record has that roll
\* number; stated for the inserts that violate exactly one unique index,
\* where the violated field does not depend on the order in which the store
\* checks its indexes
C8_MessageNamesViolatedField ==
  [][\A p \in Procs :
       (/\ Inserting(p) /\ resp'[p].status = 409
        /\ Cardinality(UniqueViolations(doc[p][1], store)) = 1) =>
          /\ resp'[p].message = "This LDAP ID is already registered" =>
               \E x \in store : x.ldapId = doc[p][1].ldapId
          /\ resp'[p].message = "This Roll Number is already registered" =>
               \E x \in store : x.rollNumber = doc[p][1].rollNumber]_vars

\* C9: a record that stays stored keeps its registrationNumber
C9_NumberImmutable ==
  [][\A x \in store, y \in store' :
       x.id = y.id => y.registrationNumber = x.registrationNumber]_vars

\* C9 witness: a status update has just changed a stored record
C9_Witness ==
  /\ out.op = "updateStatus" /\ out.status = 200
  /\ \E x \in store : x.status # "confirmed" /\ x.registrationNumber # ""

\* C10: every stored record has a non-empty interestedEvents list, and a
\* request with an empty or absent interestedEvents ends with a 400
C10_EventsNeverEmpty ==
  /\ \A x \in store : Len(x.interestedEvents) > 0
  /\ \A p \in Procs :
       (/\ pc[p] = "done"
        /\ \/ req[p][1].interestedEvents = MissingEvents
           \/ req[p][1].interestedEvents = ArrayEvents(<<>>)) =>
          resp[p].status = 400

\* the roll number shape of the specification: two digits, one letter, then
\* four or five digits
RollShape(v) ==
  /\ Len(v) \in {7, 8}
  /\ v[1] \in Digits /\ v[2] \in Digits
  /\ v[3] \in UpperSet \cup LowerSet
  /\ \A i \in 4..Len(v) : v[i] \in Digits

\* C11: every stored record's rollNumber has the shape two digits, one
\* letter, four or five digits, and a register request whose trimmed and
\* upper-cased roll number does not have that shape is answered 400
C11_RollNumberShape ==
  /\ \A x \in store : RollShape(x.rollNumber)
  /\ \A p \in Procs :
       (pc[p] = "done" /\ ~RollShape(NormalRoll(req[p][1].rollNumber))) =>
          resp[p].status = 400

\* no stored record has the registration number n
NoRecord(n) == \A r \in store : r.registrationNumber # n

\* C12: updateStatus with a status other than pending, confirmed and
\* cancelled responds 400 and leaves the store unchanged, for a number that
\* a stored record has and for one that none has
C12_InvalidStatusRejected ==
  [][\A n \in NumberInputs, s \in StatusInputs :
       (/\ s \notin {"pending", "confirmed", "cancelled"}
        /\ updateRegistrationStatus(n, s)) =>
          (out'.op = "updateStatus" /\ out'.status = 400 /\ store' = store)]_vars

\* C12 witness: an update has been refused with 400 while a record is stored
C12_Witness ==
  out.op = "updateStatus" /\ out.status = 400 /\ store # {}

\* C13: updateStatus with a valid status and delete, for a number that no
\* stored record has, respond 404 and leave the store unchanged; delete for
\* a number that a record has removes that record and no other
C13_NotFoundAndDelete ==
  [][\A n \in NumberInputs :
       /\ \A s \in StatusInputs :
            (/\ s \in {"pending", "confirmed", "cancelled"}
             /\ NoRecord(n)
             /\ updateRegistrationStatus(n, s)) =>
               (out'.status = 404 /\ store' = store)
       /\ deleteRegistration(n) =>
            IF NoRecord(n)
            THEN out'.status = 404 /\ store' = store
            ELSE /\ out'.status = 200
                 /\ store' = {r \in store : r.registrationNumber # n}
                 /\ Cardinality(store') = Cardinality(store) - 1]_vars

\* C13 witness: a delete has removed a record and another one is still stored
C13_Witness ==
  out.op = "delete" /\ out.status = 200 /\ store # {}

\* C14: a successful updateStatus changes the status of the record with the
\* given number and nothing else of it, and no other record
C14_UpdateChangesOnlyStatus ==
  [][\A n \in NumberInputs, s \in StatusInputs :
       (updateRegistrationStatus(n, s) /\ out'.status = 200) =>
          \E x \in store, y \in store' :
            /\ x.registrationNumber = n
            /\ y.status = s
            /\ y.id = x.id
            /\ y.name = x.name
            /\ y.ldapId = x.ldapId
            /\ y.rollNumber = x.rollNumber
            /\ y.branch = x.branch
            /\ y.year = x.year
            /\ y.interestedEvents = x.interestedEvents
            /\ y.registrationNumber = x.registrationNumber
            /\ y.registrationDate = x.registrationDate
            /\ store' \ {y} = store \ {x}]_vars

\* C14 witness: an update has cancelled one of two stored records
C14_Witness ==
  /\ out.op = "updateStatus" /\ out.status = 200
  /\ Cardinality(store) = 2
  /\ \E x \in store : x.status = "cancelled"

\* the number of stored records with status confirmed
ConfirmedCount == Cardinality({r \in store : r.status = "confirmed"})

\* C15: when the store does not change during the call, the total returned
\* by getStats and by live count is the number of stored records whose
\* status is confirmed
C15_StatsCountConfirmed ==
  [][/\ (stats.op = "getStats" /\ stats.quiet /\ out'.op = "getStats") =>
          out'.data[1].summary.totalRegistrations = ConfirmedCount
     /\ (stats.op = "liveCount" /\ stats.quiet /\ out'.op = "liveCount") =>
          out'.data[1].total = ConfirmedCount]_vars

\* C15 witness: getStats has run all its queries over an unchanged store
\* that holds a record moved to pending and a confirmed one, and counted one
C15_Witness ==
  /\ stats.op = "getStats" /\ stats.step = 7 /\ stats.quiet
  /\ stats.total = 1
  /\ \E x, y \in store : x.status = "pending" /\ y.status = "confirmed"

\* the sum of the counts of the groups of a distribution
RECURSIVE SumCounts(_)
SumCounts(groups) ==
  IF groups = {} THEN 0
  ELSE LET g == CHOOSE x \in groups : TRUE
       IN g.count + SumCounts(groups \ {g})

\* the sum of the percentages of the groups, in hundredths of a percent
RECURSIVE SumPercentages(_)
SumPercentages(groups) ==
  IF groups = {} THEN 0
  ELSE LET g == CHOOSE x \in groups : TRUE
       IN g.percentage.hundredths + SumPercentages(groups \ {g})

\* C16: in a getStats response computed over an unchanging store with at
\* least one confirmed record, the counts of each of the distributions
\* events, branches and years add up to the reported total, and its
\* percentages add up to 100% within the rounding of two decimals
C16_DistributionsSumToTotal ==
  [][(/\ stats.op = "getStats" /\ stats.quiet /\ out'.op = "getStats"
      /\ out'.data[1].summary.totalRegistrations > 0) =>
        LET total == out'.data[1].summary.totalRegistrations
            d == out'.data[1].distributions
        IN \A dist \in {d.events, d.branches, d.years} :
             /\ SumCounts(dist) = total
             /\ \A g \in dist : g.percentage.finite
             /\ LET sum == SumPercentages(dist)
                IN /\ sum >= 10000 - Cardinality(dist)
                   /\ sum <= 10000 + Cardinality(dist)]_vars

\* C17: in a getStats response whose total is 0 every percentage is 0
C17_NoDivisionByZero ==
  (out.op = "getStats" /\ out.data[1].summary.totalRegistrations = 0) =>
     LET d == out.data[1].distributions
     IN /\ out.data[1].summary.bothEventsPercentage = Finite(0)
        /\ \A g \in d.events \cup d.branches \cup d.years :
             g.percentage = Finite(0)

\* the same identifier up to letter case
SameUpToCase(i, j) == toLowerCase(i) = toLowerCase(j)

\* the stored records that register treats as duplicates of the identifier,
\* taken as an email if it contains '@' and as a roll number otherwise
RegisterDuplicates(identifier) ==
  IF includes(identifier, "@")
  THEN {r \in store : r.ldapId = NormalEmail(identifier)}
  ELSE {r \in store : r.rollNumber = NormalRoll(identifier)}

AuditFields == {"ipAddress", "userAgent"}

\* no document of the response body o has an audit field
NoAuditFields(o) ==
  /\ \A i \in 1..Len(o.data) : DOMAIN o.data[i] \cap AuditFields = {}
  /\ (o.status = 200 /\ "op" \in DOMAIN o /\ o.op = "getStats") =>
        \A i \in 1..Len(o.data[1].recentRegistrations) :
          DOMAIN o.data[1].recentRegistrations[i] \cap AuditFields = {}

\* C19: no response of any operation contains the ipAddress or the userAgent
\* of a record
C19_NoAuditFieldsInResponses ==
  /\ NoAuditFields(out)
  /\ \A p \in Procs : NoAuditFields(resp[p])

\* C19 witness: a status update has answered with the record it changed,
\* which is stored with its audit fields
C19_Witness ==
  /\ out.op = "updateStatus" /\ out.status = 200
  /\ \E r \in store :
       /\ r.id = out.data[1].id
       /\ AuditFields \subseteq DOMAIN r

\* C20: the per-event statistics answer 400 for an event name other than
\* 'ScaleUp Blitz', 'ScaleUp Ignite' and 'Both'; for one of these names
\* totalRegistrations is the number of confirmed records whose
\* interestedEvents contain the name, and the branch counts and the year
\* counts each add up to it
C20_EventStats ==
  [][\A e \in EventNameInputs :
       getEventStats(e) =>
         IF e \notin {"ScaleUp Blitz", "ScaleUp Ignite", "Both"}
         THEN out'.status = 400
         ELSE LET total == out'.data[1].totalRegistrations
              IN /\ out'.status = 200
                 /\ total = Cardinality(
                      {r \in store :
                         /\ r.status = "confirmed"
                         /\ \E i \in 1..Len(r.interestedEvents) :
                              r.interestedEvents[i] = e})
                 /\ SumCounts(out'.data[1].branchDistribution) = total
                 /\ SumCounts(out'.data[1].yearDistribution) = total]_vars

\* C20 witness: two stored records list the event, one of them is not
\* confirmed, and the per-event statistics have counted one
C20_Witness ==
  /\ out.op = "eventStats" /\ out.status = 200
  /\ out.data[1].totalRegistrations = 1
  /\ Cardinality({r \in store : HasEvent(r, out.data[1].event)}) = 2

\* the stored records that are pending or cancelled
NotConfirmed == {x \in store : x.status \in {"pending", "cancelled"}}

\* C23: while a pending or cancelled record is stored, a valid register
\* request with its email or its roll number is answered 409 and stores
\* nothing, and a lookup of its email or of its roll number answers 200 with
\* isRegistered true; a registration is stored only when no stored record,
\* whatever its status, has its email or its roll number
C23_StatusIgnoredByDuplicateCheck ==
  [][/\ \A p \in Procs :
          /\ (/\ Received(p)
              /\ validateRegistration(req'[p][1]) = {}
              /\ \E x \in NotConfirmed :
                   \/ x.ldapId = NormalEmail(req'[p][1].ldapId)
                   \/ x.rollNumber = NormalRoll(req'[p][1].rollNumber)) =>
                (resp'[p].status = 409 /\ store' = store)
          /\ (Inserting(p) /\ resp'[p].status = 201) =>
                \A x \in store : /\ x.ldapId # doc[p][1].ldapId
                                 /\ x.rollNumber # doc[p][1].rollNumber
     /\ \A i \in OpsIdentifiers :
          (/\ checkRegistration(i)
           /\ \E x \in NotConfirmed : \/ x.ldapId = toLowerCase(i)
                                      \/ x.rollNumber = toUpperCase(i)) =>
             (out'.status = 200 /\ out'.isRegistered)]_vars

\* C23 witness: a register request with the email of a stored record that
\* is not confirmed, and with another roll number, was answered 409 with
\* that record's number
C23_Witness ==
  \E p \in Procs, x \in NotConfirmed :
    /\ pc[p] = "done" /\ resp[p].status = 409
    /\ resp[p].registrationNumber = x.registrationNumber
    /\ NormalEmail(req[p][1].ldapId) = x.ldapId
    /\ NormalRoll(req[p][1].rollNumber) # x.rollNumber

\* n written with four digits, for n below 10000
FourDigits(n) ==
  IF n < 10 THEN "000" \o NumToString(n)
  ELSE IF n < 100 THEN "00" \o NumToString(n)
  ELSE IF n < 1000 THEN "0" \o NumToString(n)
  ELSE NumToString(n)

\* BW, the current year, and n in four digits
NumberOfSequence(n) == "BW" \o NumToString(getFullYear(now)) \o FourDigits(n)

\* no record has been deleted so far: every record ever inserted is stored
NoDeletesSoFar == Cardinality(store) = nextId - 1

\* C22 as stated: a generated number is BW, the current year and the number
\* of stored records plus one in four digits; without deletes and without
\* concurrent requests the n-th successful register call returns the number
\* with sequence n, the submitted rollNumber upper-cased and the submitted
\* ldapId lower-cased
C22_Original ==
  [][\A p \in Procs :
       /\ (pc[p] = "saving" /\ pc'[p] = "inserting") =>
             doc'[p][1].registrationNumber =
               NumberOfSequence(Cardinality(store) + 1)
       /\ (/\ Inserting(p) /\ resp'[p].status = 201
           /\ Undisturbed(p) /\ NoDeletesSoFar) =>
             /\ resp'[p].data[1].registrationNumber = NumberOfSequence(nextId)
             /\ resp'[p].data[1].rollNumber = toUpperCase(req[p][1].rollNumber)
             /\ resp'[p].data[1].ldapId = toLowerCase(req[p][1].ldapId)]_vars

\* C22 amended: a generated number is BW, the current year and the number
\* of stored records plus one in four digits; without deletes and without
\* concurrent requests the n-th successful register call returns the number
\* with sequence n, the submitted rollNumber trimmed and upper-cased and the
\* submitted ldapId trimmed and lower-cased
C22_Amended ==
  [][\A p \in Procs :
       /\ (pc[p] = "saving" /\ pc'[p] = "inserting") =>
             doc'[p][1].registrationNumber =
               NumberOfSequence(Cardinality(store) + 1)
       /\ (/\ Inserting(p) /\ resp'[p].status = 201
           /\ Undisturbed(p) /\ NoDeletesSoFar) =>
             /\ resp'[p].data[1].registrationNumber = NumberOfSequence(nextId)
             /\ resp'[p].data[1].rollNumber = NormalRoll(req[p][1].rollNumber)
             /\ resp'[p].data[1].ldapId = NormalEmail(req[p][1].ldapId)]_vars

\* C22 witness: the second registration, sent with a trailing blank after a
\* roll number, was stored without deletes and without concurrent requests
\* and got the number with sequence 0002
C22_Witness ==
  \E p \in Procs :
    /\ pc[p] = "done" /\ resp[p].status = 201
    /\ Undisturbed(p)
    /\ Cardinality(store) = 2 /\ nextId = 3
    /\ resp[p].data[1].registrationNumber = "BW20250002"
    /\ req[p][1].rollNumber = Roll_1U
    /\ resp[p].data[1].rollNumber # toUpperCase(req[p][1].rollNumber)

\* request p repeats, right after its failure, a request whose insert failed
\* on a registration number taken while it was handled
Retrying(p) == retry.retrying[p] \/ retry'.retrying[p]

\* request p gets its response in this step
Answered(p) == pc[p] # "done" /\ pc'[p] = "done"

\* C21: a register call that failed at the insert only because its
\* registration number was taken by a registration of another person stored
\* while it was handled, and that is repeated with no other operation in
\* between, is answered 201 with a number that no stored record has
C21_RetrySucceeds ==
  [][\A p \in Procs :
       (Retrying(p) /\ Answered(p)) =>
          /\ resp'[p].status = 201
          /\ \A x \in store :
                x.registrationNumber # resp'[p].data[1].registrationNumber]_vars

====
